---------------------------- MODULE Spec2Model ----------------------------
(***************************************************************************)
(* Model of the Laniakea plugin SDK (Go): the version gate embedded by     *)
(* both plugin shapes (DatasourceBase, ControllerBase), and the streaming  *)
(* bridges DatasourceGRPCClient/Server.StartRecord and                     *)
(* ControllerGRPCClient/Server.Command.                                    *)
(*                                                                         *)
(* Strings are sequences of one-character strings, so that parsing a       *)
(* version or a constraint is computed, character by character.            *)
(* Versions are release versions: an optional "v" and dot-separated        *)
(* decimal segments.  Constraints use the operators = != > < >= <= and     *)
(* the empty operator, joined by commas.                                   *)
(***************************************************************************)
EXTENDS Naturals, Sequences, FiniteSets, TLC

\* Largest value of a segment of the generated host versions a.b.c.
MaxSeg == 1

\* Frames a producer emits on one stream, at most.
MaxFrames == 3

\* Frames the network stream holds in flight, at most.
MaxNet == 2

\* Successful sends of a nil frame on one stream, at most.
MaxNilSends == 2

\* Producer goroutines one plugin is seen to run at the same time.
MaxProducers == 2

---------------------------------------------------------------------------
\* Strings

DigitChars == <<"0", "1", "2", "3", "4", "5", "6", "7", "8", "9">>

IsDigit(ch) == \E i \in 1..10 : DigitChars[i] = ch

DigitVal(ch) == (CHOOSE i \in 1..10 : DigitChars[i] = ch) - 1

\* The string "a.b.c" for one-digit segments.
Ver(a, b, c) == <<DigitChars[a + 1], ".", DigitChars[b + 1], ".", DigitChars[c + 1]>>

EmptyString == <<>>

RECURSIVE TrimLeft(_)
TrimLeft(s) == IF s # <<>> /\ Head(s) = " " THEN TrimLeft(Tail(s)) ELSE s

RECURSIVE TrimRight(_)
TrimRight(s) ==
    IF s # <<>> /\ s[Len(s)] = " " THEN TrimRight(SubSeq(s, 1, Len(s) - 1)) ELSE s

\* strings.Split(s, sep) for a one-character separator.
RECURSIVE SplitAcc(_, _, _, _)
SplitAcc(s, sep, cur, acc) ==
    IF s = <<>> THEN Append(acc, cur)
    ELSE IF Head(s) = sep THEN SplitAcc(Tail(s), sep, <<>>, Append(acc, cur))
    ELSE SplitAcc(Tail(s), sep, Append(cur, Head(s)), acc)

Split(s, sep) == SplitAcc(s, sep, <<>>, <<>>)

\* strconv.ParseInt of a string of decimal digits.
RECURSIVE ParseInt(_)
ParseInt(ds) ==
    IF ds = <<>> THEN 0
    ELSE ParseInt(SubSeq(ds, 1, Len(ds) - 1)) * 10 + DigitVal(ds[Len(ds)])

AllDigits(ds) == ds # <<>> /\ \A i \in 1..Len(ds) : IsDigit(ds[i])

---------------------------------------------------------------------------
\* hashicorp/go-version, as called by PushVersion and SetVersionConstraints

\* version.NewVersion: [ok, segments]; at least three segments, zero padded.
NewVersion(s) ==
    LET body  == IF s # <<>> /\ Head(s) = "v" THEN Tail(s) ELSE s
        parts == Split(body, ".")
        ok    == \A i \in 1..Len(parts) : AllDigits(parts[i])
        segs  == [i \in 1..Len(parts) |-> ParseInt(parts[i])]
    IN  IF ~ok THEN [ok |-> FALSE, segments |-> <<>>]
        ELSE [ok |-> TRUE,
              segments |-> IF Len(segs) >= 3 THEN segs
                           ELSE [i \in 1..3 |-> IF i <= Len(segs) THEN segs[i] ELSE 0]]

AllZeroFrom(segs, i) == \A j \in i..Len(segs) : segs[j] = 0

\* Version.Compare on the segments: -1, 0, 1 coded as "lt", "eq", "gt".
RECURSIVE CompareFrom(_, _, _)
CompareFrom(a, b, i) ==
    IF i > Len(a) /\ i > Len(b) THEN "eq"
    ELSE IF i > Len(a) THEN (IF AllZeroFrom(b, i) THEN "eq" ELSE "lt")
    ELSE IF i > Len(b) THEN (IF AllZeroFrom(a, i) THEN "eq" ELSE "gt")
    ELSE IF a[i] = b[i] THEN CompareFrom(a, b, i + 1)
    ELSE IF a[i] < b[i] THEN "lt"
    ELSE "gt"

Compare(a, b) == CompareFrom(a, b, 1)

OpGE == <<">", "=">>
OpLE == <<"<", "=">>
OpNE == <<"!", "=">>
OpGT == <<">">>
OpLT == <<"<">>
OpEQ == <<"=">>
OpNone == <<>>

\* The operator a single constraint starts with (the longest that matches).
OperatorOf(t) ==
    IF Len(t) >= 2 /\ SubSeq(t, 1, 2) \in {OpGE, OpLE, OpNE} THEN SubSeq(t, 1, 2)
    ELSE IF Len(t) >= 1 /\ SubSeq(t, 1, 1) \in {OpGT, OpLT, OpEQ} THEN SubSeq(t, 1, 1)
    ELSE OpNone

\* parseSingle: optional spaces, operator, optional spaces, version, optional spaces.
ParseSingle(p) ==
    LET t    == TrimLeft(p)
        op   == OperatorOf(t)
        rest == TrimRight(TrimLeft(SubSeq(t, Len(op) + 1, Len(t))))
        v    == NewVersion(rest)
    IN  [ok |-> v.ok, op |-> op, segments |-> v.segments]

\* version.NewConstraint: [ok, constraints], one entry per comma-separated part.
NewConstraint(s) ==
    LET parts  == Split(s, ",")
        parsed == [i \in 1..Len(parts) |-> ParseSingle(parts[i])]
    IN  IF \E i \in 1..Len(parts) : ~parsed[i].ok
        THEN [ok |-> FALSE, constraints |-> <<>>]
        ELSE [ok |-> TRUE,
              constraints |-> [i \in 1..Len(parts) |->
                                  [op |-> parsed[i].op, segments |-> parsed[i].segments]]]

\* Constraint.Check: the operator's comparison of v against the constraint's version.
ConstraintCheck(c, v) ==
    LET cmp == Compare(v, c.segments)
    IN  CASE c.op \in {OpEQ, OpNone} -> cmp = "eq"
          [] c.op = OpNE -> cmp # "eq"
          [] c.op = OpGT -> cmp = "gt"
          [] c.op = OpLT -> cmp = "lt"
          [] c.op = OpGE -> cmp # "lt"
          [] c.op = OpLE -> cmp # "gt"

\* Constraints.Check: every constraint holds (a nil Constraints accepts all).
Check(cs, v) == \A i \in 1..Len(cs) : ConstraintCheck(cs[i], v)

---------------------------------------------------------------------------
\* Inputs of the version gate

\* pluginVersion and laniVersionConstraint of the example plugin.
PluginVersion == Ver(0, 1, 0)
LaniVersionConstraint == <<">", "=", " ", "0", ".", "2", ".", "0">>

\* Arguments of SetPluginVersion.
PluginVersionStrings == {EmptyString, PluginVersion, Ver(1, 0, 0)}

\* Host versions a.b.c, and strings chosen for the parser's cases.
VersionStrings ==
    {Ver(a, b, c) : a \in 0..MaxSeg, b \in 0..MaxSeg, c \in 0..MaxSeg}
    \cup {EmptyString,
          Ver(0, 2, 0),
          <<"0", ".", "1", ".", "9">>,
          <<"0", ".", "2">>,
          <<"v", "0", ".", "2", ".", "0">>,
          <<"0", ".", "1", "0", ".", "0">>,
          <<"1", ".", ".", "0">>,
          <<"x">>}

\* Arguments of SetVersionConstraints.
ConstraintStrings ==
    {LaniVersionConstraint,
     <<">", "=", "0", ".", "2", ".", "0">>,
     <<">", " ", "0", ".", "2", ".", "0">>,
     <<"<", " ", "1", ".", "0">>,
     <<"!", "=", " ", "0", ".", "2", ".", "0">>,
     <<"0", ".", "2", ".", "0">>,
     <<">", "=", " ", "0", ".", "2", ",", " ", "<", " ", "1", ".", "0", ".", "0">>,
     EmptyString,
     <<">", ">", " ", "1">>}

\* Arguments of ControllerBase.SetRequiredVersion and ControllerBase.PushVersion.
ControllerStrings ==
    {EmptyString, Ver(0, 2, 0), <<"0", ".", "1", ".", "9">>, LaniVersionConstraint}

Bases == {"DatasourceBase", "ControllerBase"}

---------------------------------------------------------------------------
\* State

VARIABLES
    underTest,   \* the base the calls of this behaviour go to
    dsBase,      \* DatasourceBase: version, laniVersionConstraint, laniVersion
    ctlBase,     \* ControllerBase: version, requiredLaniVersion, laniVersion
    lastCall,    \* the most recent call on a base: its argument and results
    hist,        \* per base: whether SetPluginVersion was called, its last
                 \* argument, and the argument of the last PushVersion that
                 \* returned no error
    inflight,    \* a DatasourceBase.PushVersion running concurrently with
                 \* other calls: its position and its argument
    lastCtlCall, \* ControllerBase's result when one call is made on both
                 \* bases
    unary        \* a host-side unary call (StopRecord, Stop, PushVersion,
                 \* GetVersion) on its way to the plugin's logic and back

gateVars == <<underTest, dsBase, ctlBase, lastCall, hist, inflight, lastCtlCall, unary>>

VARIABLES
    shape,   \* "Datasource" or "Controller" ("none": no streaming call)
    impl,    \* the plugin logic behind the interface: "Generic" or "Example"
    prod,    \* the logic's producer goroutine and its channels
    srv,     \* the plugin-side handler (DatasourceGRPCServer.StartRecord,
             \* ControllerGRPCServer.Command)
    wire,    \* the network stream, its context and the transport
    cli,     \* the host-side call and its forwarding goroutine
    host     \* the host's consumer of the returned channel

bridgeVars == <<shape, impl, prod, srv, wire, cli, host>>

vars == <<underTest, dsBase, ctlBase, lastCall, hist, inflight, lastCtlCall, unary,
          shape, impl, prod, srv, wire, cli, host>>

\* Go errors: nil, an error value of the plugin (a bg.Error, or whatever the
\* logic returns), and the status error an RPC returns to its caller.
NilError == [kind |-> "nil", code |-> "", msg |-> ""]

PlainError(msg) == [kind |-> "error", code |-> "", msg |-> msg]

StatusError(code, msg) == [kind |-> "status", code |-> code, msg |-> msg]

GoError(err) == IF err = "nil" THEN NilError ELSE PlainError(err)

NoUnary == [pc |-> "idle", method |-> "none", versionNumber |-> EmptyString,
            implCalled |-> FALSE, implErr |-> NilError, implRet |-> EmptyString,
            fault |-> FALSE, err |-> NilError, ret |-> EmptyString]

NoPush == [pc |-> "idle", versionNumber |-> EmptyString]

NoCall == [base |-> "none", op |-> "none", arg |-> EmptyString,
           err |-> "nil", ret |-> EmptyString]

Called(base, op, arg, err, ret) ==
    [base |-> base, op |-> op, arg |-> arg, err |-> err, ret |-> ret]

\* The zero values of the two structs.
GateInit ==
    /\ underTest \in Bases
    /\ dsBase = [version |-> EmptyString, laniVersionConstraint |-> <<>>,
                 laniVersion |-> EmptyString]
    /\ ctlBase = [version |-> EmptyString, requiredLaniVersion |-> EmptyString,
                  laniVersion |-> EmptyString]
    /\ lastCall = NoCall
    /\ hist = [b \in Bases |-> [setCalled |-> FALSE, lastSet |-> EmptyString,
                                lastAccepted |-> EmptyString]]
    /\ inflight = NoPush
    /\ lastCtlCall = NoCall
    /\ unary = NoUnary

---------------------------------------------------------------------------
\* DatasourceBase

DatasourceBase_SetPluginVersion_Ignored(b, verStr) == b

DatasourceBase_SetPluginVersion(b, verStr) == [b EXCEPT !.version = verStr]

\* A SetVersionConstraints that clears the stored constraint when parsing fails.
\* A SetVersionConstraints that forgets the negotiated version.
DatasourceBase_SetVersionConstraints_ResetNegotiated(b, verStr) ==
    LET c == NewConstraint(verStr)
    IN  IF ~c.ok THEN [err |-> "ErrMalformedConstraint", b |-> b]
        ELSE [err |-> "nil", b |-> [b EXCEPT !.laniVersionConstraint = c.constraints,
                                             !.laniVersion = EmptyString]]

DatasourceBase_SetVersionConstraints_ClearOnError(b, verStr) ==
    LET c == NewConstraint(verStr)
    IN  IF ~c.ok THEN [err |-> "ErrMalformedConstraint",
                       b |-> [b EXCEPT !.laniVersionConstraint = <<>>]]
        ELSE [err |-> "nil", b |-> [b EXCEPT !.laniVersionConstraint = c.constraints]]

DatasourceBase_SetVersionConstraints(b, verStr) ==
    LET c == NewConstraint(verStr)
    IN  IF ~c.ok THEN [err |-> "ErrMalformedConstraint", b |-> b]
        ELSE [err |-> "nil", b |-> [b EXCEPT !.laniVersionConstraint = c.constraints]]

DatasourceBase_GetLaniVersion(b) == b.laniVersion

DatasourceBase_GetVersion(b) ==
    IF b.version = EmptyString
    THEN [ret |-> EmptyString, err |-> "ErrPluginVersionNotSet"]
    ELSE [ret |-> b.version, err |-> "nil"]

\* A PushVersion that leaves out the constraint check.
DatasourceBase_PushVersion_NoCheck(b, versionNumber) ==
    LET laniV == NewVersion(versionNumber)
    IN  IF ~laniV.ok THEN [err |-> "ErrMalformedVersion", b |-> b]
        ELSE [err |-> "nil", b |-> [b EXCEPT !.laniVersion = versionNumber]]

\* A PushVersion that records the version before it checks it.
DatasourceBase_PushVersion_StoreFirst(b, versionNumber) ==
    LET laniV  == NewVersion(versionNumber)
        stored == [b EXCEPT !.laniVersion = versionNumber]
    IN  IF ~laniV.ok THEN [err |-> "ErrMalformedVersion", b |-> stored]
        ELSE IF ~Check(b.laniVersionConstraint, laniV.segments)
        THEN [err |-> "ErrLaniakeaVersionMismatch", b |-> stored]
        ELSE [err |-> "nil", b |-> stored]

\* A PushVersion that rejects every version while no constraint is stored.
DatasourceBase_PushVersion_NeedsConstraint(b, versionNumber) ==
    LET laniV == NewVersion(versionNumber)
    IN  IF ~laniV.ok THEN [err |-> "ErrMalformedVersion", b |-> b]
        ELSE IF b.laniVersionConstraint = <<>>
                \/ ~Check(b.laniVersionConstraint, laniV.segments)
        THEN [err |-> "ErrLaniakeaVersionMismatch", b |-> b]
        ELSE [err |-> "nil", b |-> [b EXCEPT !.laniVersion = versionNumber]]

DatasourceBase_PushVersion(b, versionNumber) ==
    LET laniV == NewVersion(versionNumber)
    IN  IF ~laniV.ok THEN [err |-> "ErrMalformedVersion", b |-> b]
        ELSE IF ~Check(b.laniVersionConstraint, laniV.segments)
        THEN [err |-> "ErrLaniakeaVersionMismatch", b |-> b]
        ELSE [err |-> "nil", b |-> [b EXCEPT !.laniVersion = versionNumber]]

---------------------------------------------------------------------------
\* ControllerBase

ControllerBase_SetPluginVersion(b, verStr) == [b EXCEPT !.version = verStr]

ControllerBase_SetRequiredVersion(b, verStr) == [b EXCEPT !.requiredLaniVersion = verStr]

ControllerBase_GetLaniVersion(b) == b.laniVersion

ControllerBase_GetVersion(b) ==
    IF b.version = EmptyString
    THEN [ret |-> EmptyString, err |-> "ErrPluginVersionNotSet"]
    ELSE [ret |-> b.version, err |-> "nil"]

ControllerBase_PushVersion(b, verStr) ==
    IF verStr # b.requiredLaniVersion
    THEN [err |-> "ErrLaniakeaVersionMismatch", b |-> b]
    ELSE [err |-> "nil", b |-> [b EXCEPT !.laniVersion = verStr]]

---------------------------------------------------------------------------
\* Calls on the base under test

NoteSet(base, verStr) ==
    hist' = [hist EXCEPT ![base].setCalled = TRUE, ![base].lastSet = verStr]

NotePush(base, arg, err) ==
    hist' = IF err = "nil" THEN [hist EXCEPT ![base].lastAccepted = arg] ELSE hist

Call_DatasourceBase_SetPluginVersion ==
    /\ underTest = "DatasourceBase"
    /\ \E verStr \in PluginVersionStrings :
          /\ dsBase' = DatasourceBase_SetPluginVersion(dsBase, verStr)
          /\ lastCall' = Called("DatasourceBase", "SetPluginVersion", verStr, "nil", EmptyString)
          /\ NoteSet("DatasourceBase", verStr)
    /\ UNCHANGED <<underTest, unary, inflight, lastCtlCall, ctlBase, bridgeVars>>

Call_DatasourceBase_SetVersionConstraints ==
    /\ underTest = "DatasourceBase"
    /\ \E verStr \in ConstraintStrings :
          LET r == DatasourceBase_SetVersionConstraints(dsBase, verStr)
          IN  /\ dsBase' = r.b
              /\ lastCall' = Called("DatasourceBase", "SetVersionConstraints", verStr,
                                    r.err, EmptyString)
    /\ UNCHANGED <<underTest, unary, inflight, lastCtlCall, ctlBase, hist, bridgeVars>>

Call_DatasourceBase_GetLaniVersion ==
    /\ underTest = "DatasourceBase"
    /\ lastCall' = Called("DatasourceBase", "GetLaniVersion", EmptyString, "nil",
                          DatasourceBase_GetLaniVersion(dsBase))
    /\ UNCHANGED <<underTest, unary, inflight, lastCtlCall, dsBase, ctlBase, hist, bridgeVars>>

Call_DatasourceBase_GetVersion ==
    /\ underTest = "DatasourceBase"
    /\ LET r == DatasourceBase_GetVersion(dsBase)
       IN  lastCall' = Called("DatasourceBase", "GetVersion", EmptyString, r.err, r.ret)
    /\ UNCHANGED <<underTest, unary, inflight, lastCtlCall, dsBase, ctlBase, hist, bridgeVars>>

Call_DatasourceBase_PushVersion ==
    /\ underTest = "DatasourceBase"
    /\ \E versionNumber \in VersionStrings :
          LET r == DatasourceBase_PushVersion(dsBase, versionNumber)
          IN  /\ dsBase' = r.b
              /\ lastCall' = Called("DatasourceBase", "PushVersion", versionNumber,
                                    r.err, EmptyString)
              /\ NotePush("DatasourceBase", versionNumber, r.err)
    /\ UNCHANGED <<underTest, unary, inflight, lastCtlCall, ctlBase, bridgeVars>>

Call_ControllerBase_SetPluginVersion ==
    /\ underTest = "ControllerBase"
    /\ \E verStr \in PluginVersionStrings :
          /\ ctlBase' = ControllerBase_SetPluginVersion(ctlBase, verStr)
          /\ lastCall' = Called("ControllerBase", "SetPluginVersion", verStr, "nil", EmptyString)
          /\ NoteSet("ControllerBase", verStr)
    /\ UNCHANGED <<underTest, unary, inflight, lastCtlCall, dsBase, bridgeVars>>

Call_ControllerBase_SetRequiredVersion ==
    /\ underTest = "ControllerBase"
    /\ \E verStr \in ControllerStrings :
          /\ ctlBase' = ControllerBase_SetRequiredVersion(ctlBase, verStr)
          /\ lastCall' = Called("ControllerBase", "SetRequiredVersion", verStr, "nil",
                                EmptyString)
    /\ UNCHANGED <<underTest, unary, inflight, lastCtlCall, dsBase, hist, bridgeVars>>

Call_ControllerBase_GetLaniVersion ==
    /\ underTest = "ControllerBase"
    /\ lastCall' = Called("ControllerBase", "GetLaniVersion", EmptyString, "nil",
                          ControllerBase_GetLaniVersion(ctlBase))
    /\ UNCHANGED <<underTest, unary, inflight, lastCtlCall, dsBase, ctlBase, hist, bridgeVars>>

Call_ControllerBase_GetVersion ==
    /\ underTest = "ControllerBase"
    /\ LET r == ControllerBase_GetVersion(ctlBase)
       IN  lastCall' = Called("ControllerBase", "GetVersion", EmptyString, r.err, r.ret)
    /\ UNCHANGED <<underTest, unary, inflight, lastCtlCall, dsBase, ctlBase, hist, bridgeVars>>

Call_ControllerBase_PushVersion ==
    /\ underTest = "ControllerBase"
    /\ \E verStr \in ControllerStrings :
          LET r == ControllerBase_PushVersion(ctlBase, verStr)
          IN  /\ ctlBase' = r.b
              /\ lastCall' = Called("ControllerBase", "PushVersion", verStr, r.err,
                                    EmptyString)
              /\ NotePush("ControllerBase", verStr, r.err)
    /\ UNCHANGED <<underTest, unary, inflight, lastCtlCall, dsBase, bridgeVars>>

GateNext ==
    \/ Call_DatasourceBase_SetPluginVersion
    \/ Call_DatasourceBase_SetVersionConstraints
    \/ Call_DatasourceBase_GetLaniVersion
    \/ Call_DatasourceBase_GetVersion
    \/ Call_DatasourceBase_PushVersion
    \/ Call_ControllerBase_SetPluginVersion
    \/ Call_ControllerBase_SetRequiredVersion
    \/ Call_ControllerBase_GetLaniVersion
    \/ Call_ControllerBase_GetVersion
    \/ Call_ControllerBase_PushVersion

---------------------------------------------------------------------------
\* The streaming bridge: one streaming call (StartRecord or Command)
\*
\* A frame is its number in the producer's emission order, 1, 2, ...; NilFrame
\* is the nil *proto.Frame a receive from a closed channel yields, which
\* arrives at the host, when it is sent at all, as an empty frame.

NilFrame == 0

\* The frames 1..n in order.
Frames(n) == [i \in 1..n |-> i]

BridgeInit(sh, impls) ==
    /\ shape = sh
    /\ impl \in impls
    /\ prod = [pc |-> "none", emitted |-> 0, frameChan |-> "nil", quitChan |-> "nil",
               producers |-> 0, again |-> "none",
               stopRecord |-> "none", stopWasRecording |-> FALSE, stop |-> "none"]
    /\ srv = [pc |-> "idle", frame |-> NilFrame, err |-> "none", exit |-> "none",
              ctxAtReturn |-> "none", recv |-> <<>>, nilSends |-> 0, late |-> 0]
    /\ wire = [net |-> <<>>, netEnd |-> "open", netLog |-> <<>>,
               ctxErr |-> "none", fault |-> FALSE, sent |-> <<>>, sendErr |-> "none"]
    /\ cli = [pc |-> "idle", err |-> "none", frameChan |-> "nil", first |-> <<>>,
              fwdPc |-> "none", fwdFrame |-> NilFrame, recvs |-> 0]
    /\ host = [delivered |-> <<>>, sawClose |-> FALSE, reading |-> TRUE]

\* srv.late counts the loop iterations that took the frame case of the select
\* while the call's context was already done.
Late == srv.late + (IF wire.ctxErr # "none" THEN 1 ELSE 0)

\* The handler returns err: the stream ends with EOF for nil, with a status otherwise.
Returned(err, exit) ==
    [srv EXCEPT !.pc = "returned", !.err = err, !.exit = exit,
                !.ctxAtReturn = wire.ctxErr, !.frame = NilFrame]

StreamEnded(w, err) ==
    [w EXCEPT !.netEnd = IF w.netEnd # "open" THEN w.netEnd
                          ELSE IF err = "nil" THEN "EOF" ELSE "error"]

---------------------------------------------------------------------------
\* Plugin logic: a Datasource or Controller implementation behind the interface

\* A handler that returns nil when the logic's call fails.
Logic_Start_SwallowError(ok) ==
    IF ok
    THEN /\ prod' = [prod EXCEPT !.pc = "loop", !.frameChan = "open", !.producers = 1]
         /\ srv' = [srv EXCEPT !.pc = "select"]
         /\ wire' = wire
    ELSE /\ srv' = Returned("nil", "logic")
         /\ wire' = StreamEnded(wire, "nil")
         /\ prod' = prod

\* StartRecord() / Command(req) of some implementation: it fails, or it makes
\* frameChan, starts its producer and returns the channel.
Logic_Start(ok) ==
    IF ok
    THEN /\ prod' = [prod EXCEPT !.pc = "loop", !.frameChan = "open", !.producers = 1]
         /\ srv' = [srv EXCEPT !.pc = "select"]
         /\ wire' = wire
    ELSE /\ srv' = Returned("ErrLogic", "logic")
         /\ wire' = StreamEnded(wire, "ErrLogic")
         /\ prod' = prod

\* The producer has its next frame and blocks handing it to frameChan.
Generic_Emit ==
    /\ impl = "Generic"
    /\ prod.pc = "loop"
    /\ prod.emitted < MaxFrames
    /\ prod' = [prod EXCEPT !.pc = "send", !.emitted = @ + 1]
    /\ UNCHANGED <<gateVars, shape, impl, srv, wire, cli, host>>

\* The producer closes its stream and ends.
Generic_Close ==
    /\ impl = "Generic"
    /\ prod.pc = "loop"
    /\ prod' = [prod EXCEPT !.pc = "done", !.frameChan = "closed", !.producers = 0]
    /\ UNCHANGED <<gateVars, shape, impl, srv, wire, cli, host>>

\* DatasourceExample.StartRecord's goroutine at its select: a receive from a
\* nil quitChan is never ready, so the default case builds the next frame.
QuitReady == prod.quitChan = "closed"

Example_Select ==
    /\ impl = "Example"
    /\ prod.pc = "loop"
    /\ IF QuitReady
       THEN prod' = [prod EXCEPT !.pc = "done", !.producers = @ - 1]
       ELSE /\ prod.emitted < MaxFrames
            /\ prod' = [prod EXCEPT !.pc = "send", !.emitted = @ + 1]
    /\ UNCHANGED <<gateVars, shape, impl, srv, wire, cli, host>>

\* The plugin has a producer goroutine of StartRecord running.
Recording == prod.pc \in {"loop", "send"}

\* DatasourceExample.StartRecord called while a producer of an earlier call
\* runs: it makes a channel, e.Add(1), starts another producer, returns nil.
DatasourceExample_StartRecord_Again ==
    /\ impl = "Example"
    /\ Recording
    /\ prod.producers < MaxProducers
    /\ prod' = [prod EXCEPT !.producers = @ + 1, !.again = "nil"]
    /\ UNCHANGED <<gateVars, shape, impl, srv, wire, cli, host>>

\* DatasourceExample.StopRecord: e.quitChan <- struct{}{}.  A send on the nil
\* quitChan blocks forever; on a made one it waits for the producer's select.
DatasourceExample_StopRecord ==
    /\ impl = "Example"
    /\ prod.stopRecord = "none"
    /\ prod.stop = "none"
    /\ prod' = [prod EXCEPT !.stopRecord = "blocked", !.stopWasRecording = Recording]
    /\ UNCHANGED <<gateVars, shape, impl, srv, wire, cli, host>>

\* DatasourceExample.Stop: close(e.quitChan); e.Wait().  Closing the nil
\* quitChan panics, which ends the plugin process: its goroutines are gone
\* and an open stream breaks.
DatasourceExample_Stop ==
    /\ impl = "Example"
    /\ cli.pc # "idle"
    /\ prod.stop = "none"
    /\ prod.quitChan = "nil"
    /\ prod' = [prod EXCEPT !.stop = "panicked", !.pc = "crashed"]
    /\ srv' = IF srv.pc \in {"idle", "returned"} THEN srv
              ELSE [srv EXCEPT !.pc = "crashed"]
    /\ wire' = IF wire.netEnd = "open"
               THEN [wire EXCEPT !.netEnd = "error", !.fault = TRUE]
               ELSE wire
    /\ UNCHANGED <<gateVars, shape, impl, cli, host>>

---------------------------------------------------------------------------
\* Context of the streaming call

\* The host ends the call (it tears the stream down): the context is Canceled.
HostCancel ==
    /\ srv.pc \in {"called", "select", "send"}
    /\ wire.ctxErr = "none"
    /\ wire' = [wire EXCEPT !.ctxErr = "Canceled", !.netEnd = "error"]
    /\ UNCHANGED <<gateVars, shape, impl, prod, srv, cli, host>>

\* The call's deadline passes.
DeadlineExceeded ==
    /\ srv.pc \in {"called", "select", "send"}
    /\ wire.ctxErr = "none"
    /\ wire' = [wire EXCEPT !.ctxErr = "DeadlineExceeded", !.netEnd = "error"]
    /\ UNCHANGED <<gateVars, shape, impl, prod, srv, cli, host>>

---------------------------------------------------------------------------
\* stream.Send on the plugin side

\* stream.Send(frame) was called and returned err: wire.sent lists the frames
\* passed to Send, wire.sendErr is the error of the call that failed.
SendFailed(w, err) ==
    [w EXCEPT !.sent = Append(@, srv.frame), !.sendErr = err]

\* Send of a frame: it fails once the context is done, it may fail by a
\* transport fault, and otherwise the frame is in flight.
Send_Frame ==
    /\ srv.pc = "send"
    /\ srv.frame # NilFrame
    /\ \/ /\ wire.ctxErr # "none"
          /\ srv' = Returned("ErrStreamDone", "send")
          /\ wire' = SendFailed(wire, "ErrStreamDone")
       \/ /\ wire.ctxErr = "none"
          /\ srv' = Returned("ErrTransport", "send")
          /\ wire' = [SendFailed(StreamEnded(wire, "ErrTransport"), "ErrTransport")
                         EXCEPT !.fault = TRUE]
       \/ /\ wire.ctxErr = "none"
          /\ Len(wire.net) < MaxNet
          /\ srv' = [srv EXCEPT !.pc = "select", !.frame = NilFrame]
          /\ wire' = [wire EXCEPT !.net = Append(@, srv.frame),
                                  !.netLog = Append(@, srv.frame),
                                  !.sent = Append(@, srv.frame)]

\* Send of a nil frame: marshalling it fails, or (depending on the protobuf
\* runtime of the build) an empty frame is sent.
Send_Nil ==
    /\ srv.pc = "send"
    /\ srv.frame = NilFrame
    /\ \/ /\ wire.ctxErr # "none"
          /\ srv' = Returned("ErrStreamDone", "send")
          /\ wire' = SendFailed(wire, "ErrStreamDone")
       \/ /\ wire.ctxErr = "none"
          /\ srv' = Returned("ErrMarshalNil", "send")
          /\ wire' = SendFailed(StreamEnded(wire, "ErrMarshalNil"), "ErrMarshalNil")
       \/ /\ wire.ctxErr = "none"
          /\ Len(wire.net) < MaxNet
          /\ srv.nilSends < MaxNilSends
          /\ srv' = [srv EXCEPT !.pc = "select", !.nilSends = @ + 1]
          /\ wire' = [wire EXCEPT !.net = Append(@, NilFrame),
                                  !.netLog = Append(@, NilFrame),
                                  !.sent = Append(@, NilFrame)]

\* A loop that goes on after a failed Send instead of returning its error.
Send_IgnoreError ==
    /\ srv.pc = "send"
    /\ \/ /\ srv' = [srv EXCEPT !.pc = "select", !.frame = NilFrame]
          /\ wire' = SendFailed(wire, "ErrTransport")
       \/ /\ wire.ctxErr = "none"
          /\ Len(wire.net) < MaxNet
          /\ srv.frame # NilFrame
          /\ srv' = [srv EXCEPT !.pc = "select", !.frame = NilFrame]
          /\ wire' = [wire EXCEPT !.net = Append(@, srv.frame),
                                  !.netLog = Append(@, srv.frame),
                                  !.sent = Append(@, srv.frame)]

\* stream.Send(frame), whatever the frame
Send == Send_Frame \/ Send_Nil

\* A Done branch that returns nil whatever the context's error.
CtxDone_AlwaysNil ==
    /\ srv.pc = "select"
    /\ wire.ctxErr # "none"
    /\ srv' = Returned("nil", "ctx")
    /\ wire' = StreamEnded(wire, "nil")

\* case <-stream.Context().Done()
CtxDone ==
    /\ srv.pc = "select"
    /\ wire.ctxErr # "none"
    /\ LET err == IF wire.ctxErr = "Canceled" THEN "nil" ELSE wire.ctxErr
       IN  /\ srv' = Returned(err, "ctx")
           /\ wire' = StreamEnded(wire, err)

---------------------------------------------------------------------------
\* DatasourceGRPCServer.StartRecord

\* frameChan, err := s.Impl.StartRecord()
DatasourceGRPCServer_StartRecord_Begin ==
    /\ shape = "Datasource"
    /\ srv.pc = "called"
    /\ \E ok \in BOOLEAN :
          /\ impl = "Example" => ok
          /\ Logic_Start(ok)
    /\ UNCHANGED <<gateVars, shape, impl, cli, host>>

\* A loop that takes the producer's frame and does not send it.
DatasourceGRPCServer_StartRecord_RecvFrame_Drop ==
    /\ shape = "Datasource"
    /\ srv.pc = "select"
    /\ prod.pc = "send"
    /\ srv' = [srv EXCEPT !.recv = Append(@, prod.emitted), !.late = Late]
    /\ prod' = [prod EXCEPT !.pc = "loop"]
    /\ UNCHANGED <<gateVars, shape, impl, wire, cli, host>>

\* case frame := <-frameChan, the producer handing over its frame
DatasourceGRPCServer_StartRecord_RecvFrame ==
    /\ shape = "Datasource"
    /\ srv.pc = "select"
    /\ prod.pc = "send"
    /\ srv' = [srv EXCEPT !.pc = "send", !.frame = prod.emitted,
                          !.recv = Append(@, prod.emitted), !.late = Late]
    /\ prod' = [prod EXCEPT !.pc = "loop"]
    /\ UNCHANGED <<gateVars, shape, impl, wire, cli, host>>

\* A loop without the nil check: the nil frame goes to Send.
DatasourceGRPCServer_StartRecord_RecvClosed_NoNilCheck ==
    /\ shape = "Datasource"
    /\ srv.pc = "select"
    /\ prod.frameChan = "closed"
    /\ srv' = [srv EXCEPT !.pc = "send", !.frame = NilFrame, !.late = Late]
    /\ UNCHANGED <<gateVars, shape, impl, prod, wire, cli, host>>

\* case frame := <-frameChan on the closed channel: frame == nil, return nil
DatasourceGRPCServer_StartRecord_RecvClosed ==
    /\ shape = "Datasource"
    /\ srv.pc = "select"
    /\ prod.frameChan = "closed"
    /\ srv' = [Returned("nil", "closed") EXCEPT !.late = Late]
    /\ wire' = StreamEnded(wire, "nil")
    /\ UNCHANGED <<gateVars, shape, impl, prod, cli, host>>

\* stream.Send(frame)
DatasourceGRPCServer_StartRecord_Send ==
    /\ shape = "Datasource"
    /\ Send
    /\ UNCHANGED <<gateVars, shape, impl, prod, cli, host>>

\* case <-stream.Context().Done()
DatasourceGRPCServer_StartRecord_CtxDone ==
    /\ shape = "Datasource"
    /\ CtxDone
    /\ UNCHANGED <<gateVars, shape, impl, prod, cli, host>>

---------------------------------------------------------------------------
\* ControllerGRPCServer.Command

\* frameChan, err := s.Impl.Command(req)
ControllerGRPCServer_Command_Begin ==
    /\ shape = "Controller"
    /\ srv.pc = "called"
    /\ \E ok \in BOOLEAN : Logic_Start(ok)
    /\ UNCHANGED <<gateVars, shape, impl, cli, host>>

\* case frame := <-frameChan, the producer handing over its frame
ControllerGRPCServer_Command_RecvFrame ==
    /\ shape = "Controller"
    /\ srv.pc = "select"
    /\ prod.pc = "send"
    /\ srv' = [srv EXCEPT !.pc = "send", !.frame = prod.emitted,
                          !.recv = Append(@, prod.emitted), !.late = Late]
    /\ prod' = [prod EXCEPT !.pc = "loop"]
    /\ UNCHANGED <<gateVars, shape, impl, wire, cli, host>>

\* case frame := <-frameChan on the closed channel: the nil frame goes to Send
ControllerGRPCServer_Command_RecvClosed ==
    /\ shape = "Controller"
    /\ srv.pc = "select"
    /\ prod.frameChan = "closed"
    /\ srv' = [srv EXCEPT !.pc = "send", !.frame = NilFrame, !.late = Late]
    /\ UNCHANGED <<gateVars, shape, impl, prod, wire, cli, host>>

\* stream.Send(frame)
ControllerGRPCServer_Command_Send ==
    /\ shape = "Controller"
    /\ Send
    /\ UNCHANGED <<gateVars, shape, impl, prod, cli, host>>

\* case <-stream.Context().Done()
ControllerGRPCServer_Command_CtxDone ==
    /\ shape = "Controller"
    /\ CtxDone
    /\ UNCHANGED <<gateVars, shape, impl, prod, cli, host>>

---------------------------------------------------------------------------
\* Host side

\* stream.Recv(): the next frame in flight, or the end of the stream.
RecvReady == wire.net # <<>> \/ wire.netEnd # "open"

RecvFrame == IF wire.net # <<>> THEN Head(wire.net) ELSE NilFrame

RecvErr ==
    IF wire.net # <<>> THEN "nil"
    ELSE IF wire.netEnd = "EOF" THEN "EOF"
    ELSE "ErrStatus"

AfterRecv == IF wire.net # <<>> THEN [wire EXCEPT !.net = Tail(@)] ELSE wire

\* The client stub opens the stream: the handler is called on the plugin, or
\* the transport fails and the call returns that error.
OpenStream(opened, next) ==
    IF opened
    THEN /\ cli' = [cli EXCEPT !.pc = next]
         /\ srv' = [srv EXCEPT !.pc = "called"]
         /\ wire' = wire
    ELSE /\ cli' = [cli EXCEPT !.pc = "returned", !.err = "ErrTransport"]
         /\ wire' = [wire EXCEPT !.fault = TRUE, !.netEnd = "error"]
         /\ srv' = srv

\* stream, err := c.client.StartRecord(context.Background(), &proto.Empty{})
DatasourceGRPCClient_StartRecord_Call ==
    /\ shape = "Datasource"
    /\ cli.pc = "idle"
    /\ \E opened \in BOOLEAN : OpenStream(opened, "firstRecv")
    /\ UNCHANGED <<gateVars, shape, impl, prod, host>>

\* A call that starts its forwarding goroutine whatever the first receive gave.
DatasourceGRPCClient_StartRecord_FirstRecv_NoCheck ==
    /\ shape = "Datasource"
    /\ cli.pc = "firstRecv"
    /\ RecvReady
    /\ wire' = AfterRecv
    /\ cli' = [cli EXCEPT !.pc = "returned", !.err = RecvErr, !.frameChan = "open",
                          !.fwdPc = "recv", !.recvs = @ + 1]
    /\ UNCHANGED <<gateVars, shape, impl, prod, srv, host>>

\* frameChan := make(...); frame, err := stream.Recv(); the first frame is
\* checked and not used again; go func() ...; return frameChan, nil
DatasourceGRPCClient_StartRecord_FirstRecv ==
    /\ shape = "Datasource"
    /\ cli.pc = "firstRecv"
    /\ RecvReady
    /\ wire' = AfterRecv
    /\ IF RecvErr # "nil"
       THEN cli' = [cli EXCEPT !.pc = "returned", !.err = RecvErr, !.recvs = @ + 1]
       ELSE cli' = [cli EXCEPT !.pc = "returned", !.err = "nil", !.frameChan = "open",
                               !.first = <<RecvFrame>>, !.fwdPc = "recv",
                               !.recvs = @ + 1]
    /\ UNCHANGED <<gateVars, shape, impl, prod, srv, host>>

\* c.client.Command(context.Background(), f); frameChan := make(...);
\* go func() ...; return frameChan, nil
ControllerGRPCClient_Command_Call ==
    /\ shape = "Controller"
    /\ cli.pc = "idle"
    /\ \E opened \in BOOLEAN :
          IF opened
          THEN /\ cli' = [cli EXCEPT !.pc = "returned", !.err = "nil",
                                     !.frameChan = "open", !.fwdPc = "recv"]
               /\ srv' = [srv EXCEPT !.pc = "called"]
               /\ wire' = wire
          ELSE OpenStream(FALSE, "returned")
    /\ UNCHANGED <<gateVars, shape, impl, prod, host>>

\* A goroutine that receives the next frame while it still holds one (as
\* with a buffer between the receive and the channel).
Forward_Recv_Ahead ==
    /\ cli.fwdPc \in {"recv", "send"}
    /\ RecvReady
    /\ wire' = AfterRecv
    /\ IF RecvErr # "nil"
       THEN cli' = [cli EXCEPT !.fwdPc = "exit"]
       ELSE cli' = [cli EXCEPT !.fwdPc = "send", !.fwdFrame = RecvFrame]
    /\ UNCHANGED <<gateVars, shape, impl, prod, srv, host>>

\* The forwarding goroutine: frame, err := stream.Recv(); on a nil frame, EOF
\* or an error it returns and the deferred close(frameChan) runs.
Forward_Recv ==
    /\ cli.fwdPc = "recv"
    /\ RecvReady
    /\ wire' = AfterRecv
    /\ IF RecvErr # "nil"
       THEN cli' = [cli EXCEPT !.fwdPc = "exit"]
       ELSE cli' = [cli EXCEPT !.fwdPc = "send", !.fwdFrame = RecvFrame]
    /\ UNCHANGED <<gateVars, shape, impl, prod, srv, host>>

\* A goroutine that ends without closing frameChan.
Forward_Close_Leak ==
    /\ cli.fwdPc = "exit"
    /\ cli' = [cli EXCEPT !.fwdPc = "done"]
    /\ UNCHANGED <<gateVars, shape, impl, prod, srv, wire, host>>

\* A goroutine that closes frameChan inside its loop and carries on.
Forward_Close_InLoop ==
    /\ cli.fwdPc = "exit"
    /\ cli' = [cli EXCEPT !.fwdPc = "recv", !.frameChan = "closed"]
    /\ UNCHANGED <<gateVars, shape, impl, prod, srv, wire, host>>

\* defer close(frameChan), as the goroutine's function ends
Forward_Close ==
    /\ cli.fwdPc = "exit"
    /\ cli' = [cli EXCEPT !.fwdPc = "done", !.frameChan = "closed"]
    /\ UNCHANGED <<gateVars, shape, impl, prod, srv, wire, host>>

\* A goroutine that drops the frame it holds instead of handing it over.
Forward_Send_Skip ==
    /\ cli.fwdPc = "send"
    /\ cli' = [cli EXCEPT !.fwdPc = "recv", !.fwdFrame = NilFrame]
    /\ UNCHANGED <<gateVars, shape, impl, prod, srv, wire, host>>

\* frameChan <- frame, the host's consumer taking the frame
Forward_Send ==
    /\ cli.fwdPc = "send"
    /\ host.reading
    /\ cli' = [cli EXCEPT !.fwdPc = "recv", !.fwdFrame = NilFrame]
    /\ host' = [host EXCEPT !.delivered = Append(@, cli.fwdFrame)]
    /\ UNCHANGED <<gateVars, shape, impl, prod, srv, wire>>

\* The host's consumer finds the channel closed.
Host_SeesClose ==
    /\ cli.frameChan = "closed"
    /\ host.reading
    /\ ~host.sawClose
    /\ host' = [host EXCEPT !.sawClose = TRUE]
    /\ UNCHANGED <<gateVars, shape, impl, prod, srv, wire, cli>>

\* The host's consumer stops receiving from the channel it was handed.
Host_StopReading ==
    /\ cli.frameChan = "open"
    /\ host.reading
    /\ host' = [host EXCEPT !.reading = FALSE]
    /\ UNCHANGED <<gateVars, shape, impl, prod, srv, wire, cli>>

---------------------------------------------------------------------------
\* Specifications

\* The version gate alone.
\* DatasourceBase.PushVersion as the statements of its body, for calls that
\* run concurrently: the struct has no lock, and the RPC server runs every
\* call in a goroutine of its own. First the parse and the constraint check,
\* which read laniVersionConstraint ...
DatasourceBase_PushVersion_Check ==
    /\ underTest = "DatasourceBase"
    /\ inflight.pc = "idle"
    /\ \E versionNumber \in VersionStrings :
          LET laniV == NewVersion(versionNumber)
              err   == IF ~laniV.ok THEN "ErrMalformedVersion"
                       ELSE IF ~Check(dsBase.laniVersionConstraint, laniV.segments)
                       THEN "ErrLaniakeaVersionMismatch"
                       ELSE "nil"
          IN  IF err # "nil"
              THEN /\ lastCall' = Called("DatasourceBase", "PushVersion", versionNumber,
                                        err, EmptyString)
                   /\ UNCHANGED inflight
              ELSE /\ inflight' = [pc |-> "checked", versionNumber |-> versionNumber]
                   /\ UNCHANGED lastCall
    /\ UNCHANGED <<underTest, unary, dsBase, ctlBase, hist, lastCtlCall, bridgeVars>>

\* ... then the write of laniVersion and the return.
DatasourceBase_PushVersion_Write ==
    /\ underTest = "DatasourceBase"
    /\ inflight.pc = "checked"
    /\ dsBase' = [dsBase EXCEPT !.laniVersion = inflight.versionNumber]
    /\ lastCall' = Called("DatasourceBase", "PushVersion", inflight.versionNumber,
                          "nil", EmptyString)
    /\ NotePush("DatasourceBase", inflight.versionNumber, "nil")
    /\ inflight' = NoPush
    /\ UNCHANGED <<underTest, unary, ctlBase, lastCtlCall, bridgeVars>>

GateSpecInit == GateInit /\ BridgeInit("none", {"none"})

SpecGate == GateSpecInit /\ [][GateNext]_vars

GateIdle ==
    /\ underTest = "DatasourceBase"
    /\ dsBase = [version |-> EmptyString, laniVersionConstraint |-> <<>>,
                 laniVersion |-> EmptyString]
    /\ ctlBase = [version |-> EmptyString, requiredLaniVersion |-> EmptyString,
                  laniVersion |-> EmptyString]
    /\ lastCall = NoCall
    /\ hist = [b \in Bases |-> [setCalled |-> FALSE, lastSet |-> EmptyString,
                                lastAccepted |-> EmptyString]]
    /\ inflight = NoPush
    /\ lastCtlCall = NoCall
    /\ unary = NoUnary

\* One StartRecord call through the Datasource bridge.
DatasourceInit == GateIdle /\ BridgeInit("Datasource", {"Generic", "Example"})

DatasourceNext ==
    \/ DatasourceGRPCClient_StartRecord_Call
    \/ DatasourceGRPCClient_StartRecord_FirstRecv
    \/ DatasourceGRPCServer_StartRecord_Begin
    \/ DatasourceGRPCServer_StartRecord_RecvFrame
    \/ DatasourceGRPCServer_StartRecord_RecvClosed
    \/ DatasourceGRPCServer_StartRecord_Send
    \/ DatasourceGRPCServer_StartRecord_CtxDone
    \/ Generic_Emit
    \/ Generic_Close
    \/ Example_Select
    \/ HostCancel
    \/ DeadlineExceeded
    \/ Forward_Recv
    \/ Forward_Send
    \/ Forward_Close
    \/ Host_SeesClose
    \/ Host_StopReading

SpecDatasource == DatasourceInit /\ [][DatasourceNext]_vars

\* One Command call through the Controller bridge.
ControllerInit == GateIdle /\ BridgeInit("Controller", {"Generic"})

ControllerNext ==
    \/ ControllerGRPCClient_Command_Call
    \/ ControllerGRPCServer_Command_Begin
    \/ ControllerGRPCServer_Command_RecvFrame
    \/ ControllerGRPCServer_Command_RecvClosed
    \/ ControllerGRPCServer_Command_Send
    \/ ControllerGRPCServer_Command_CtxDone
    \/ Generic_Emit
    \/ Generic_Close
    \/ HostCancel
    \/ DeadlineExceeded
    \/ Forward_Recv
    \/ Forward_Send
    \/ Forward_Close
    \/ Host_SeesClose
    \/ Host_StopReading

SpecController == ControllerInit /\ [][ControllerNext]_vars

\* One streaming call through either bridge.
BridgeSpecInit == DatasourceInit \/ ControllerInit

BridgeNext == DatasourceNext \/ ControllerNext

SpecBridge == BridgeSpecInit /\ [][BridgeNext]_vars

\* The example plugin as main serves it: SetPluginVersion(pluginVersion) and
\* SetVersionConstraints(laniVersionConstraint) have run, nothing was pushed.
\* The host may push versions before and during one StartRecord call.
PluginInit ==
    /\ underTest = "DatasourceBase"
    /\ dsBase = [version |-> PluginVersion,
                 laniVersionConstraint |-> NewConstraint(LaniVersionConstraint).constraints,
                 laniVersion |-> EmptyString]
    /\ ctlBase = [version |-> EmptyString, requiredLaniVersion |-> EmptyString,
                  laniVersion |-> EmptyString]
    /\ lastCall = NoCall
    /\ hist = [b \in Bases |->
                 [setCalled |-> b = "DatasourceBase",
                  lastSet |-> IF b = "DatasourceBase" THEN PluginVersion ELSE EmptyString,
                  lastAccepted |-> EmptyString]]
    /\ inflight = NoPush
    /\ lastCtlCall = NoCall
    /\ unary = NoUnary
    /\ BridgeInit("Datasource", {"Generic", "Example"})

PluginNext == Call_DatasourceBase_PushVersion \/ DatasourceNext

SpecPlugin == PluginInit /\ [][PluginNext]_vars

\* Scheduling of the Datasource bridge: a goroutine that can take its next
\* step takes it, and a consumer that is reading takes what it is offered.
\* Nothing obliges the logic to emit or close, the host to call, to stop
\* reading or to tear the call down, or a deadline to pass.
DatasourceFairness ==
    /\ WF_vars(DatasourceGRPCClient_StartRecord_FirstRecv)
    /\ WF_vars(DatasourceGRPCServer_StartRecord_Begin)
    /\ WF_vars(DatasourceGRPCServer_StartRecord_RecvFrame)
    /\ WF_vars(DatasourceGRPCServer_StartRecord_RecvClosed)
    /\ WF_vars(DatasourceGRPCServer_StartRecord_Send)
    /\ WF_vars(DatasourceGRPCServer_StartRecord_CtxDone)
    /\ WF_vars(Example_Select)
    /\ WF_vars(Forward_Recv)
    /\ WF_vars(Forward_Send)
    /\ WF_vars(Forward_Close)
    /\ WF_vars(Host_SeesClose)

FairDatasource == SpecDatasource /\ DatasourceFairness

\* The example plugin: one StartRecord call through the bridge, with the
\* host's StopRecord and Stop and a StartRecord that arrives while recording.
ConcurrentGateInit == GateIdle /\ BridgeInit("none", {"none"})

ConcurrentGateNext ==
    \/ DatasourceBase_PushVersion_Check
    \/ DatasourceBase_PushVersion_Write
    \/ Call_DatasourceBase_SetPluginVersion
    \/ Call_DatasourceBase_SetVersionConstraints
    \/ Call_DatasourceBase_GetLaniVersion
    \/ Call_DatasourceBase_GetVersion

SpecConcurrentGate == ConcurrentGateInit /\ [][ConcurrentGateNext]_vars

\* Host-side unary calls. The plugin's logic is the base under test for
\* PushVersion and GetVersion; StopRecord and Stop are the plugin author's
\* and return nil or an error of theirs.
UnaryMethods ==
    IF underTest = "DatasourceBase"
    THEN {"StopRecord", "Stop", "PushVersion", "GetVersion"}
    ELSE {"Stop", "PushVersion", "GetVersion"}

UnaryVersions == {Ver(0, 2, 0), <<"0", ".", "1", ".", "9">>, <<"x">>}

LogicErrors == {"nil", "ErrLogic"}

\* s.Impl.<method>(...): the results of the logic's method and the bases
\* after it.
Impl_Unary(method, versionNumber) ==
    IF method = "PushVersion"
    THEN IF underTest = "DatasourceBase"
         THEN LET r == DatasourceBase_PushVersion(dsBase, versionNumber)
              IN  {[err |-> r.err, ret |-> EmptyString, ds |-> r.b, ctl |-> ctlBase]}
         ELSE LET r == ControllerBase_PushVersion(ctlBase, versionNumber)
              IN  {[err |-> r.err, ret |-> EmptyString, ds |-> dsBase, ctl |-> r.b]}
    ELSE IF method = "GetVersion"
    THEN LET r == IF underTest = "DatasourceBase" THEN DatasourceBase_GetVersion(dsBase)
                  ELSE ControllerBase_GetVersion(ctlBase)
         IN  {[err |-> r.err, ret |-> r.ret, ds |-> dsBase, ctl |-> ctlBase]}
    ELSE {[err |-> e, ret |-> EmptyString, ds |-> dsBase, ctl |-> ctlBase] :
             e \in LogicErrors}

\* What the caller of an RPC gets for the error its handler returned: nil
\* for nil, otherwise a status of code Unknown carrying the error's message.
RPCError(err) ==
    IF err.kind = "nil" THEN NilError
    ELSE IF err.kind = "status" THEN err
    ELSE StatusError("Unknown", err.msg)

\* c.client.<method>(context.Background(), request)
GRPCClient_Unary_Call ==
    /\ unary.pc = "idle"
    /\ \E method \in UnaryMethods :
       \E versionNumber \in UnaryVersions :
          unary' = [NoUnary EXCEPT !.pc = "request", !.method = method,
                                   !.versionNumber = IF method = "PushVersion"
                                                     THEN versionNumber
                                                     ELSE EmptyString]
    /\ UNCHANGED <<underTest, dsBase, ctlBase, lastCall, hist, inflight, lastCtlCall,
                   bridgeVars>>

\* The plugin-side handler: err := s.Impl.<method>(...); return response, err
GRPCServer_Unary ==
    /\ unary.pc = "request"
    /\ \E r \in Impl_Unary(unary.method, unary.versionNumber) :
          /\ dsBase' = r.ds
          /\ ctlBase' = r.ctl
          /\ IF unary.method = "PushVersion"
             THEN NotePush(underTest, unary.versionNumber, r.err)
             ELSE UNCHANGED hist
          /\ unary' = [unary EXCEPT !.pc = "response", !.implCalled = TRUE,
                                    !.implErr = GoError(r.err), !.implRet = r.ret]
    /\ UNCHANGED <<underTest, lastCall, inflight, lastCtlCall, bridgeVars>>

\* A client that drops the RPC's error.
GRPCClient_Unary_Return_DropError ==
    /\ unary.pc = "response"
    /\ unary' = [unary EXCEPT !.pc = "returned", !.err = NilError, !.ret = unary.implRet]
    /\ UNCHANGED <<underTest, dsBase, ctlBase, lastCall, hist, inflight, lastCtlCall,
                   bridgeVars>>

\* if err != nil { return err } / { return "", err }; return nil /
\* return resp.Version, nil
GRPCClient_Unary_Return ==
    /\ unary.pc = "response"
    /\ LET err == RPCError(unary.implErr)
       IN  unary' = [unary EXCEPT !.pc = "returned", !.err = err,
                                  !.ret = IF err.kind = "nil" THEN unary.implRet
                                          ELSE EmptyString]
    /\ UNCHANGED <<underTest, dsBase, ctlBase, lastCall, hist, inflight, lastCtlCall,
                   bridgeVars>>

\* The connection to the plugin fails before the response arrives: the RPC
\* returns the transport's status error.
GRPCClient_Unary_TransportError ==
    /\ unary.pc \in {"request", "response"}
    /\ unary' = [unary EXCEPT !.pc = "returned", !.fault = TRUE,
                              !.err = StatusError("Unavailable", "transport"),
                              !.ret = EmptyString]
    /\ UNCHANGED <<underTest, dsBase, ctlBase, lastCall, hist, inflight, lastCtlCall,
                   bridgeVars>>

\* The host goes on to its next call.
Unary_Next ==
    /\ unary.pc = "returned"
    /\ unary' = NoUnary
    /\ UNCHANGED <<underTest, dsBase, ctlBase, lastCall, hist, inflight, lastCtlCall,
                   bridgeVars>>

UnaryInit == GateInit /\ BridgeInit("none", {"none"})

UnaryNext ==
    \/ Call_DatasourceBase_SetPluginVersion
    \/ Call_DatasourceBase_SetVersionConstraints
    \/ Call_ControllerBase_SetPluginVersion
    \/ Call_ControllerBase_SetRequiredVersion
    \/ GRPCClient_Unary_Call
    \/ GRPCServer_Unary
    \/ GRPCClient_Unary_Return
    \/ GRPCClient_Unary_TransportError
    \/ Unary_Next

SpecUnary == UnaryInit /\ [][UnaryNext]_vars

\* One call made on both bases with the same argument: DatasourceBase's
\* result in lastCall, ControllerBase's in lastCtlCall. The bases' setters of
\* the requirement on Laniakea are SetVersionConstraints and
\* SetRequiredVersion.
Both_SetPluginVersion ==
    /\ \E verStr \in PluginVersionStrings :
          /\ dsBase' = DatasourceBase_SetPluginVersion(dsBase, verStr)
          /\ ctlBase' = ControllerBase_SetPluginVersion(ctlBase, verStr)
          /\ lastCall' = Called("DatasourceBase", "SetPluginVersion", verStr, "nil", EmptyString)
          /\ lastCtlCall' = Called("ControllerBase", "SetPluginVersion", verStr, "nil",
                                   EmptyString)
    /\ UNCHANGED <<underTest, unary, hist, inflight, bridgeVars>>

Both_SetRequirement ==
    /\ \E verStr \in ConstraintStrings :
          LET r == DatasourceBase_SetVersionConstraints(dsBase, verStr)
          IN  /\ dsBase' = r.b
              /\ ctlBase' = ControllerBase_SetRequiredVersion(ctlBase, verStr)
              /\ lastCall' = Called("DatasourceBase", "SetVersionConstraints", verStr,
                                    r.err, EmptyString)
              /\ lastCtlCall' = Called("ControllerBase", "SetRequiredVersion", verStr,
                                       "nil", EmptyString)
    /\ UNCHANGED <<underTest, unary, hist, inflight, bridgeVars>>

Both_GetLaniVersion ==
    /\ lastCall' = Called("DatasourceBase", "GetLaniVersion", EmptyString, "nil",
                          DatasourceBase_GetLaniVersion(dsBase))
    /\ lastCtlCall' = Called("ControllerBase", "GetLaniVersion", EmptyString, "nil",
                             ControllerBase_GetLaniVersion(ctlBase))
    /\ UNCHANGED <<underTest, unary, dsBase, ctlBase, hist, inflight, bridgeVars>>

Both_GetVersion ==
    /\ LET r == DatasourceBase_GetVersion(dsBase)
           c == ControllerBase_GetVersion(ctlBase)
       IN  /\ lastCall' = Called("DatasourceBase", "GetVersion", EmptyString, r.err, r.ret)
           /\ lastCtlCall' = Called("ControllerBase", "GetVersion", EmptyString, c.err,
                                    c.ret)
    /\ UNCHANGED <<underTest, unary, dsBase, ctlBase, hist, inflight, bridgeVars>>

Both_PushVersion ==
    /\ \E versionNumber \in VersionStrings :
          LET r == DatasourceBase_PushVersion(dsBase, versionNumber)
              c == ControllerBase_PushVersion(ctlBase, versionNumber)
          IN  /\ dsBase' = r.b
              /\ ctlBase' = c.b
              /\ lastCall' = Called("DatasourceBase", "PushVersion", versionNumber,
                                    r.err, EmptyString)
              /\ lastCtlCall' = Called("ControllerBase", "PushVersion", versionNumber,
                                       c.err, EmptyString)
    /\ UNCHANGED <<underTest, unary, hist, inflight, bridgeVars>>

BothBasesInit == GateIdle /\ BridgeInit("none", {"none"})

BothBasesNext ==
    \/ Both_SetPluginVersion
    \/ Both_SetRequirement
    \/ Both_GetLaniVersion
    \/ Both_GetVersion
    \/ Both_PushVersion

SpecBothBases == BothBasesInit /\ [][BothBasesNext]_vars

ExampleInit == GateIdle /\ BridgeInit("Datasource", {"Example"})

ExampleNext ==
    \/ DatasourceGRPCClient_StartRecord_Call
    \/ DatasourceGRPCClient_StartRecord_FirstRecv
    \/ DatasourceGRPCServer_StartRecord_Begin
    \/ DatasourceGRPCServer_StartRecord_RecvFrame
    \/ DatasourceGRPCServer_StartRecord_Send
    \/ DatasourceGRPCServer_StartRecord_CtxDone
    \/ Example_Select
    \/ DatasourceExample_StartRecord_Again
    \/ DatasourceExample_StopRecord
    \/ DatasourceExample_Stop
    \/ HostCancel
    \/ DeadlineExceeded
    \/ Forward_Recv
    \/ Forward_Send
    \/ Forward_Close
    \/ Host_SeesClose
    \/ Host_StopReading

SpecExample == ExampleInit /\ [][ExampleNext]_vars

FairExample == SpecExample /\ DatasourceFairness

\* Scheduling of the Controller bridge, on the same grounds.
ControllerFairness ==
    /\ WF_vars(ControllerGRPCServer_Command_Begin)
    /\ WF_vars(ControllerGRPCServer_Command_RecvFrame)
    /\ WF_vars(ControllerGRPCServer_Command_RecvClosed)
    /\ WF_vars(ControllerGRPCServer_Command_Send)
    /\ WF_vars(ControllerGRPCServer_Command_CtxDone)

FairBridge == SpecBridge /\ DatasourceFairness /\ ControllerFairness

---------------------------------------------------------------------------
\* Claims about the version gate (SpecGate)

LastCallIs(base, op) == lastCall.base = base /\ lastCall.op = op

\* The constraints stored by SetVersionConstraints(">= 0.2.0").
AtLeast020 == NewConstraint(LaniVersionConstraint).constraints

\* A string of the form d.d.d, read digit by digit.
IsPlainVersion(s) ==
    /\ Len(s) = 5
    /\ s[2] = "." /\ s[4] = "."
    /\ IsDigit(s[1]) /\ IsDigit(s[3]) /\ IsDigit(s[5])

OlderThan020(s) == DigitVal(s[1]) = 0 /\ DigitVal(s[3]) < 2

\* C1 is stated with the bridge's claims below.

\* C2: DatasourceBase.PushVersion(v) returns no error if and only if v parses
\* as a version and satisfies the stored constraint; with the constraint
\* ">= 0.2.0" a version a.b.c older than 0.2.0 is rejected with
\* ErrLaniakeaVersionMismatch and 0.2.0 or newer is accepted.
C2_PushVersionIffSatisfies ==
    LastCallIs("DatasourceBase", "PushVersion") =>
        LET v == NewVersion(lastCall.arg)
        IN  /\ lastCall.err = "nil" <=>
                  (v.ok /\ Check(dsBase.laniVersionConstraint, v.segments))
            /\ (dsBase.laniVersionConstraint = AtLeast020 /\ IsPlainVersion(lastCall.arg)) =>
                  lastCall.err = IF OlderThan020(lastCall.arg)
                                 THEN "ErrLaniakeaVersionMismatch" ELSE "nil"

C2_Witness ==
    /\ LastCallIs("DatasourceBase", "PushVersion")
    /\ dsBase.laniVersionConstraint = AtLeast020
    /\ lastCall.arg = Ver(0, 1, 1)
    /\ lastCall.err = "ErrLaniakeaVersionMismatch"
    /\ dsBase.laniVersion = Ver(1, 0, 0)

\* C3: a PushVersion that returns an error leaves the gate as it was: the
\* negotiated version, the plugin version and the constraint are unchanged.
C3_FailedPushChangesNothing ==
    [][(lastCall'.op = "PushVersion" /\ lastCall'.err # "nil")
          => (dsBase' = dsBase /\ ctlBase' = ctlBase)]_vars

C3_Witness ==
    /\ lastCall.op = "PushVersion"
    /\ lastCall.err \in {"ErrLaniakeaVersionMismatch", "ErrMalformedVersion"}
    /\ \/ /\ lastCall.base = "DatasourceBase"
          /\ dsBase.laniVersion # EmptyString
          /\ dsBase.version # EmptyString
       \/ /\ lastCall.base = "ControllerBase"
          /\ ctlBase.laniVersion # EmptyString
          /\ ctlBase.version # EmptyString

\* C4: GetLaniVersion returns the argument of the most recent PushVersion that
\* returned no error, or the empty string if none has; with ">= 0.2.0",
\* pushing 0.2.0 and then 0.1.9 leaves 0.2.0 and the second push fails with
\* the version-mismatch error.
C4_NegotiatedIsLastAccepted ==
    /\ dsBase.laniVersion = hist["DatasourceBase"].lastAccepted
    /\ ctlBase.laniVersion = hist["ControllerBase"].lastAccepted
    /\ lastCall.op = "GetLaniVersion" => lastCall.ret = hist[lastCall.base].lastAccepted
    /\ (/\ LastCallIs("DatasourceBase", "PushVersion")
        /\ dsBase.laniVersionConstraint = AtLeast020
        /\ lastCall.arg = <<"0", ".", "1", ".", "9">>)
          => lastCall.err = "ErrLaniakeaVersionMismatch"

C4_Witness ==
    /\ LastCallIs("DatasourceBase", "PushVersion")
    /\ dsBase.laniVersionConstraint = AtLeast020
    /\ lastCall.arg = <<"0", ".", "1", ".", "9">>
    /\ lastCall.err = "ErrLaniakeaVersionMismatch"
    /\ hist["DatasourceBase"].lastAccepted = Ver(0, 2, 0)
    /\ dsBase.laniVersion = Ver(0, 2, 0)

\* C5 as claimed: GetVersion returns ErrPluginVersionNotSet if and only if
\* SetPluginVersion has never been called, and after a call with any argument
\* it returns that argument and no error.
C5_NotSetIffNeverCalled ==
    lastCall.op = "GetVersion" =>
        LET h == hist[lastCall.base]
        IN  /\ lastCall.err = "ErrPluginVersionNotSet" <=> ~h.setCalled
            /\ h.setCalled => (lastCall.ret = h.lastSet /\ lastCall.err = "nil")

\* C5 as amended: GetVersion returns ErrPluginVersionNotSet if and only if the
\* stored plugin version is the empty string, that is SetPluginVersion has
\* never been called or its last call passed the empty string; otherwise it
\* returns the argument of the last SetPluginVersion call and no error.
C5_NotSetIffEmpty ==
    lastCall.op = "GetVersion" =>
        LET h == hist[lastCall.base]
        IN  /\ lastCall.err = "ErrPluginVersionNotSet" <=> h.lastSet = EmptyString
            /\ ~h.setCalled => h.lastSet = EmptyString
            /\ h.lastSet # EmptyString => (lastCall.ret = h.lastSet /\ lastCall.err = "nil")
            /\ lastCall.err \in {"nil", "ErrPluginVersionNotSet"}

C5_Witness ==
    /\ lastCall.op = "GetVersion"
    /\ hist[lastCall.base].setCalled
    /\ hist[lastCall.base].lastSet = EmptyString
    /\ lastCall.err = "ErrPluginVersionNotSet"

---------------------------------------------------------------------------
\* Claims about the bridges (SpecDatasource, SpecController)

\* The logic's stream has emitted prod.emitted frames and was then closed.
LogicClosed == prod.frameChan = "closed"

NoCancelNoFault == wire.ctxErr = "none" /\ ~wire.fault

\* The host-side call has returned and its channel, if any, was seen closed.
HostDone == cli.pc = "returned" /\ (cli.frameChan = "nil" \/ host.sawClose)

IsPrefix(a, b) == Len(a) <= Len(b) /\ a = SubSeq(b, 1, Len(a))

\* C1: if the logic's StartRecord stream emits N frames and is then closed,
\* with no cancellation and no transport fault, the host-side StartRecord
\* returns no error and its channel yields exactly those N frames in order
\* and is then closed.
C1_StartRecordEndToEnd ==
    (LogicClosed /\ NoCancelNoFault /\ HostDone) =>
        /\ cli.err = "nil"
        /\ cli.frameChan = "closed"
        /\ host.delivered = Frames(prod.emitted)

\* C6: if the stream returned by the logic's Command emits N frames and is
\* then closed, with no cancellation and no transport fault, the plugin-side
\* Command returns nil, the host-side Command returns no error and its channel
\* yields exactly those N frames in order and is then closed.
C6_CommandEndToEnd ==
    (LogicClosed /\ NoCancelNoFault) =>
        /\ srv.pc = "returned" => srv.err = "nil"
        /\ cli.pc = "returned" => cli.err = "nil"
        /\ IsPrefix(host.delivered, Frames(prod.emitted))
        /\ host.sawClose => host.delivered = Frames(prod.emitted)

\* C7: when the logic's stream is closed by its producer, the
\* DatasourceGRPCServer.StartRecord loop returns nil, having sent every frame
\* it received before the close.
C7_ClosedStreamReturnsNil ==
    (srv.pc = "returned" /\ LogicClosed /\ srv.ctxAtReturn = "none" /\ ~wire.fault) =>
        /\ srv.err = "nil"
        /\ srv.exit = "closed"
        /\ srv.recv = Frames(prod.emitted)
        /\ wire.netLog = srv.recv

C7_Witness ==
    /\ shape = "Datasource"
    /\ srv.pc = "returned"
    /\ srv.exit = "closed"
    /\ srv.err = "nil"
    /\ wire.netLog = Frames(MaxFrames)

\* C8: when the stream returned by the logic's Command is closed, the
\* ControllerGRPCServer.Command loop returns nil without any further network
\* send.
C8_CommandClosedReturnsNil ==
    /\ ~(srv.pc = "send" /\ srv.frame = NilFrame)
    /\ srv.nilSends = 0
    /\ (srv.pc = "returned" /\ LogicClosed /\ srv.ctxAtReturn = "none" /\ ~wire.fault)
          => srv.err = "nil"

\* C9: whenever the call's context is Canceled, the plugin-side loop returns
\* no error, whatever the interleaving of frames, sends and the cancellation.
C9_CanceledReturnsNil ==
    (srv.pc = "returned" /\ srv.exit # "logic" /\ srv.ctxAtReturn = "Canceled") =>
        srv.err = "nil"

\* C10: after the plugin-side StartRecord has returned because a send failed
\* or the host cancelled, the producer started by the logic's StartRecord is
\* not left blocked.  A producer at "send" is blocked handing a frame to
\* frameChan, whose only receiver is the loop that has returned.
C10_NoBlockedProducer ==
    (impl = "Example" /\ srv.pc = "returned" /\ srv.exit \in {"send", "ctx"}) =>
        prod.pc # "send"

\* C11: if the plugin-side loop's network send fails on the k-th frame, the
\* call returns exactly that send's error, the failed send is the last one
\* (the k-1 before it succeeded, none follows), and the host's consumer gets
\* at most k-1 frames, each of them one that was sent.
C11_SendFailureReturnsIt ==
    wire.sendErr # "none" =>
        LET k == Len(wire.sent)
        IN  /\ srv.pc = "returned"
            /\ srv.exit = "send"
            /\ srv.err = wire.sendErr
            /\ wire.netLog = SubSeq(wire.sent, 1, k - 1)
            /\ Len(host.delivered) <= k - 1
            /\ \A i \in 1..Len(host.delivered) :
                  \E j \in 1..(k - 1) : host.delivered[i] = wire.sent[j]

C11_Witness ==
    /\ wire.sendErr = "ErrTransport"
    /\ Len(wire.sent) = 3
    /\ srv.err = "ErrTransport"
    /\ host.delivered = <<2>>

\* The host-side call got as far as opening the stream.
StreamOpened == srv.pc # "idle"

\* C12: DatasourceGRPCClient.StartRecord does exactly one receive before it
\* returns; if that receive yields end-of-stream or an error the call returns
\* it with a nil channel and no forwarding goroutine, and no channel or
\* goroutine exists before the receive was checked.
C12_FirstReceiveGuardsChannel ==
    /\ cli.pc # "returned" => (cli.frameChan = "nil" /\ cli.fwdPc = "none")
    /\ (cli.pc = "returned" /\ StreamOpened) =>
          /\ cli.recvs = 1
          /\ cli.err # "nil" => (cli.frameChan = "nil" /\ cli.fwdPc = "none")
          /\ cli.err = "nil" => (cli.frameChan # "nil" /\ Len(cli.first) = 1)

C12_Witness ==
    /\ StreamOpened
    /\ cli.pc = "returned"
    /\ cli.recvs = 1
    /\ cli.err = "EOF"
    /\ cli.frameChan = "nil"
    /\ cli.fwdPc = "none"

\* C13: ControllerGRPCClient.Command receives one element before it returns,
\* as StartRecord does: a returned call whose stream was opened has done
\* exactly one receive, hands back a channel only if that receive yielded a
\* frame, and no forwarding goroutine runs before that receive.
C13_CommandFirstReceive ==
    /\ cli.fwdPc # "none" => cli.recvs = 1
    /\ (cli.pc = "returned" /\ StreamOpened) =>
          /\ cli.recvs = 1
          /\ cli.err # "nil" => (cli.frameChan = "nil" /\ cli.fwdPc = "none")
          /\ cli.err = "nil" => (cli.frameChan # "nil" /\ Len(cli.first) = 1)

\* d is a subsequence of Frames(n): its elements are emitted frames, in
\* strictly increasing emission order.
InEmissionOrder(d, n) ==
    /\ \A i \in 1..Len(d) : d[i] \in 1..n
    /\ \A i, j \in 1..Len(d) : i < j => d[i] < d[j]

\* C14: within one stream the frames the host's consumer receives are frames
\* the logic emitted, in the order it emitted them, none reordered and none
\* twice, in every interleaving of producer, loop, forwarder and consumer.
C14_OrderPreserved == InEmissionOrder(host.delivered, prod.emitted)

\* C15: once the forwarding goroutine has observed end-of-stream or a
\* receive error it sends nothing further on the channel, and the channel is
\* eventually closed, after a clean end and after an error alike.
C15_TerminalLeadsToClose ==
    /\ [][cli.fwdPc \in {"exit", "done"} =>
            (host'.delivered = host.delivered /\ cli'.fwdPc \in {"exit", "done"})]_vars
    /\ (cli.fwdPc = "exit") ~> (cli.frameChan = "closed")

C15_Witness ==
    /\ cli.fwdPc = "done"
    /\ cli.frameChan = "closed"
    /\ wire.netEnd = "error"
    /\ wire.fault
    /\ host.delivered = <<2>>

\* C18: if the host's consumer stops reading from the channel returned by
\* StartRecord, the call is cancelled and both the forwarding goroutine and
\* the plugin-side loop eventually terminate.
C18_StopReadingEndsCall ==
    (~host.reading) ~> (cli.fwdPc = "done" /\ srv.pc = "returned")

\* C16: on the plugin side no StartRecord opens a stream or sends a frame
\* unless a PushVersion on the plugin's version gate has succeeded before;
\* with no push, or only rejected pushes, the call does not succeed.
C16_NegotiationGatesCalls ==
    (srv.pc \in {"select", "send"} \/ wire.sent # <<>>) =>
        hist["DatasourceBase"].lastAccepted # EmptyString

\* The frames of a sequence that are not the nil frame.
NonNil(fs) == SelectSeq(fs, LAMBDA f : f # NilFrame)

\* C17: no data loss on the plugin side.  The frames the loop took from the
\* logic's stream are the first frames it emitted, in order; each of them is
\* passed to stream.Send, in order, before the loop takes the next or
\* returns; so when the loop returns after the logic closed its stream, every
\* frame the logic emitted has been passed to Send.
C17_NoLossOnPluginSide ==
    /\ srv.recv = Frames(Len(srv.recv))
    /\ NonNil(wire.sent) =
          IF srv.pc = "send" /\ srv.frame # NilFrame
          THEN SubSeq(srv.recv, 1, Len(srv.recv) - 1)
          ELSE srv.recv
    /\ (srv.pc = "returned" /\ LogicClosed) => NonNil(wire.sent) = Frames(prod.emitted)

C17_Witness ==
    /\ shape = "Controller"
    /\ srv.pc = "returned"
    /\ srv.exit = "ctx"
    /\ LogicClosed
    /\ prod.emitted = 2
    /\ NonNil(wire.sent) = <<1, 2>>

\* C19: if the logic's StartRecord or Command returns an error, the
\* plugin-side call returns that error at once: no frame was taken from a
\* stream, nothing was passed to the network send, no producer runs.
C19_LogicErrorReturned ==
    srv.exit = "logic" =>
        /\ srv.pc = "returned"
        /\ srv.err = "ErrLogic"
        /\ srv.recv = <<>>
        /\ wire.sent = <<>>
        /\ prod.pc = "none"
        /\ host.delivered = <<>>

C19_Witness ==
    /\ shape = "Datasource"
    /\ srv.exit = "logic"
    /\ srv.err = "ErrLogic"
    /\ cli.pc = "returned"
    /\ cli.err = "ErrStatus"

\* C20 as claimed: when the call's context has ended with an error other than
\* Canceled, the plugin-side call returns a failure (a non-nil error).
C20_OtherCtxErrorIsFailure ==
    (srv.pc = "returned" /\ srv.ctxAtReturn \notin {"none", "Canceled"}) =>
        srv.err # "nil"

\* C20 as amended: the Done branch returns nil exactly for Canceled and the
\* context's error otherwise; when the context has ended with another error
\* and the call returns by a failed send it returns that send's error, and it
\* returns nil only by the Datasource loop finding the logic's stream closed.
C20_DoneBranchReturnsCtxErr ==
    /\ srv.exit = "ctx" =>
          /\ srv.ctxAtReturn # "none"
          /\ srv.err = IF srv.ctxAtReturn = "Canceled" THEN "nil" ELSE srv.ctxAtReturn
    /\ (srv.pc = "returned" /\ srv.ctxAtReturn \notin {"none", "Canceled"}) =>
          /\ srv.exit = "send" => (srv.err = wire.sendErr /\ srv.err # "nil")
          /\ srv.err = "nil" => (srv.exit = "closed" /\ shape = "Datasource")

C20_Witness ==
    /\ srv.pc = "returned"
    /\ srv.exit = "ctx"
    /\ srv.ctxAtReturn = "DeadlineExceeded"
    /\ srv.err = "DeadlineExceeded"
    /\ wire.sent = <<1>>

C22_FailedSetConstraintKeepsPrevious ==
    /\ [](LastCallIs("DatasourceBase", "SetVersionConstraints") =>
            (lastCall.err # "nil" <=> ~NewConstraint(lastCall.arg).ok))
    /\ [][(lastCall'.op = "SetVersionConstraints" /\ lastCall'.err # "nil")
            => dsBase' = dsBase]_vars
    /\ [][(/\ LastCallIs("DatasourceBase", "SetVersionConstraints")
           /\ lastCall.err # "nil"
           /\ lastCall'.op = "PushVersion")
            => LET v == NewVersion(lastCall'.arg)
               IN  lastCall'.err = "nil" <=>
                     (v.ok /\ Check(dsBase.laniVersionConstraint, v.segments))]_vars

C22_Witness ==
    /\ LastCallIs("DatasourceBase", "SetVersionConstraints")
    /\ lastCall.arg = <<">", ">", " ", "1">>
    /\ lastCall.err = "ErrMalformedConstraint"
    /\ dsBase.laniVersionConstraint = AtLeast020

---------------------------------------------------------------------------
\* Claims about the example plugin's logic (SpecExample, FairExample)

C24_StopRecordWhenIdleFails ==
    (prod.stopRecord # "none" /\ ~prod.stopWasRecording) =>
        prod.stopRecord = "ErrNotRecording"

\* C25: StopRecord called once while a recording is active returns success
\* and the stream terminates: the producer stops and the plugin-side loop
\* returns.
C25_StopRecordEndsStream ==
    (prod.stopRecord # "none" /\ prod.stopWasRecording) ~>
        (prod.stopRecord = "returned" /\ ~Recording /\ srv.pc = "returned")

\* C26: StartRecord on a logic that is already recording fails with an error
\* and starts no second producer: at most one producer runs at any time.
C26_AtMostOneProducer ==
    /\ prod.producers <= 1
    /\ prod.again \in {"none", "ErrAlreadyRecording"}

---------------------------------------------------------------------------
\* Claims about the host-side channel (SpecBridge)

\* C27: the channel handed to the host by StartRecord/Command is closed only
\* by its forwarding goroutine, as that goroutine ends, and exactly once:
\* after the close the goroutine takes no further step, so nothing is sent
\* on the channel and it is not closed again.
C27_ClosedOnceByForwarder ==
    /\ [](cli.frameChan = "closed" => cli.fwdPc = "done")
    /\ [][(cli.frameChan # "closed" /\ cli'.frameChan = "closed") =>
            (cli.frameChan = "open" /\ cli.fwdPc = "exit")]_vars
    /\ [][cli.frameChan = "closed" =>
            (cli' = cli /\ host'.delivered = host.delivered)]_vars

C27_Witness ==
    /\ shape = "Controller"
    /\ cli.frameChan = "closed"
    /\ host.delivered = <<1, 2>>
    /\ host.sawClose

---------------------------------------------------------------------------
\* Claims about concurrent calls on the Version Gate (SpecConcurrentGate)

\* C28: calls on the Version Gate exclude one another: between a
\* PushVersion's constraint check and its write of the negotiated version no
\* other call reads or writes the gate, so the only step from a checked
\* PushVersion is its own write, and the version it writes satisfies the
\* constraint the gate holds at that moment.
C28_PushVersionIsAtomic ==
    [][inflight.pc = "checked" =>
         /\ inflight'.pc = "idle"
         /\ Check(dsBase.laniVersionConstraint,
                  NewVersion(inflight.versionNumber).segments)]_vars

---------------------------------------------------------------------------
\* Claims about the two bases (SpecBothBases)

\* C29: DatasourceBase and ControllerBase are one Version Gate: after any
\* sequence of calls made on both with the same arguments, the last call
\* returned the same result and error on both, and both hold the same plugin
\* version and the same negotiated version.
C29_BasesAgree ==
    /\ lastCall.err = lastCtlCall.err
    /\ lastCall.ret = lastCtlCall.ret
    /\ dsBase.version = ctlBase.version
    /\ dsBase.laniVersion = ctlBase.laniVersion

---------------------------------------------------------------------------
\* Claims about the unary calls (SpecUnary)

\* C30, as stated: a returned host-side unary call holds the very error the
\* plugin's method returned, and an error exactly when that method returned
\* one; GetVersion holds the plugin's version string, empty on failure.
C30_UnaryReturnsSameError ==
    unary.pc = "returned" =>
        /\ unary.err = unary.implErr
        /\ unary.ret = (IF unary.implErr.kind = "nil" THEN unary.implRet ELSE EmptyString)

\* C30, made precise: when the response arrives, the call returns nil if the
\* plugin's method returned nil, and otherwise the status error that carries
\* the method's error message; GetVersion returns the plugin's version
\* string on success and the empty string on failure. When the transport
\* fails the call returns the transport's error and the empty string,
\* whatever the method returned.
C30_UnaryPassThrough ==
    unary.pc = "returned" =>
        IF unary.fault
        THEN /\ unary.err = StatusError("Unavailable", "transport")
             /\ unary.ret = EmptyString
        ELSE /\ unary.implCalled
             /\ (unary.err.kind = "nil") <=> (unary.implErr.kind = "nil")
             /\ unary.err.kind # "nil" =>
                   /\ unary.err = StatusError("Unknown", unary.implErr.msg)
                   /\ unary.ret = EmptyString
             /\ unary.err.kind = "nil" => unary.ret = unary.implRet
             /\ unary.method # "GetVersion" => unary.ret = EmptyString

C30_Witness ==
    /\ unary.pc = "returned"
    /\ ~unary.fault
    /\ unary.method = "PushVersion"
    /\ unary.versionNumber = <<"0", ".", "1", ".", "9">>
    /\ unary.implErr = PlainError("ErrLaniakeaVersionMismatch")
    /\ unary.err = StatusError("Unknown", "ErrLaniakeaVersionMismatch")

---------------------------------------------------------------------------
\* Claims about the forwarding goroutine (SpecDatasource, SpecBridge)

\* The frames the host side has received from the network, in receive order.
Received == SubSeq(wire.netLog, 1, Len(wire.netLog) - Len(wire.net))

\* The frame the forwarding goroutine holds and has not handed over yet.
Pending == IF cli.fwdPc = "send" THEN <<cli.fwdFrame>> ELSE <<>>

\* C31: once the first receive has succeeded, the frames the host side
\* received after the first one are exactly the frames delivered on the
\* channel followed by the one the forwarding goroutine holds, in receive
\* order and with none skipped.
C31_ForwarderRelaysAll ==
    cli.fwdPc # "none" =>
        /\ Len(cli.first) = 1
        /\ Received = cli.first \o host.delivered \o Pending

C31_Witness ==
    /\ shape = "Datasource"
    /\ cli.first = <<1>>
    /\ host.delivered = <<2, 3>>
    /\ cli.frameChan = "closed"
    /\ wire.netEnd = "EOF"

---------------------------------------------------------------------------
\* Further claims about the Version Gate (SpecGate)

\* C32: a DatasourceBase on which no SetVersionConstraints call has ever
\* succeeded holds the empty constraint list (every successful call stores a
\* non-empty one), and on such a gate PushVersion of a version that parses
\* returns no error and stores the version as the negotiated one.
C32_NoConstraintAcceptsAll ==
    /\ [][(lastCall'.op = "SetVersionConstraints" /\ lastCall'.err = "nil")
            => dsBase'.laniVersionConstraint # <<>>]_vars
    /\ [][(/\ underTest = "DatasourceBase"
           /\ dsBase.laniVersionConstraint = <<>>
           /\ lastCall'.op = "PushVersion"
           /\ NewVersion(lastCall'.arg).ok)
            => /\ lastCall'.err = "nil"
               /\ dsBase'.laniVersion = lastCall'.arg]_vars

C32_Witness ==
    /\ LastCallIs("DatasourceBase", "PushVersion")
    /\ dsBase.laniVersionConstraint = <<>>
    /\ lastCall.arg = <<"0", ".", "1", ".", "9">>
    /\ lastCall.err = "nil"
    /\ dsBase.laniVersion = <<"0", ".", "1", ".", "9">>

\* C33, as stated: a non-empty negotiated version parses and satisfies the
\* constraint the gate currently stores.
C33_NegotiatedSatisfiesCurrent ==
    dsBase.laniVersion # EmptyString =>
        /\ NewVersion(dsBase.laniVersion).ok
        /\ Check(dsBase.laniVersionConstraint, NewVersion(dsBase.laniVersion).segments)

\* C33, made precise: a non-empty negotiated version parses and is the
\* argument of the most recent successful PushVersion; it changes only in a
\* PushVersion, and the version written satisfies the constraint stored at
\* that moment. A later set-constraint call does not check it again.
C33_NegotiatedSatisfiedWhenPushed ==
    /\ [](dsBase.laniVersion # EmptyString =>
            /\ NewVersion(dsBase.laniVersion).ok
            /\ dsBase.laniVersion = hist["DatasourceBase"].lastAccepted)
    /\ [][dsBase'.laniVersion # dsBase.laniVersion =>
            /\ lastCall'.op = "PushVersion"
            /\ lastCall'.err = "nil"
            /\ dsBase'.laniVersion = lastCall'.arg
            /\ dsBase'.laniVersionConstraint = dsBase.laniVersionConstraint
            /\ Check(dsBase.laniVersionConstraint,
                     NewVersion(dsBase'.laniVersion).segments)]_vars

C33_Witness ==
    /\ LastCallIs("DatasourceBase", "SetVersionConstraints")
    /\ lastCall.err = "nil"
    /\ dsBase.laniVersionConstraint = AtLeast020
    /\ dsBase.laniVersion = <<"0", ".", "1", ".", "9">>

---------------------------------------------------------------------------
\* Further claims about the plugin-side loops (SpecBridge)

\* C34: neither plugin-side loop calls Send with a nil frame: no argument of
\* any Send so far is nil, and the loop is never about to send the nil it
\* received from a closed channel.
C34_NilNeverSent ==
    /\ \A i \in 1..Len(wire.sent) : wire.sent[i] # NilFrame
    /\ srv.pc = "send" => srv.frame # NilFrame

\* The number of frames the host side has received and not delivered, the
\* first frame of a Datasource stream (which StartRecord keeps) apart.
Undelivered == Len(Received) - Len(cli.first) - Len(host.delivered)

\* C35: the forwarding goroutine hands frames over directly: at most one
\* received frame is undelivered at any moment, and the goroutine receives
\* from the network only when every frame it received before has been taken
\* by the consumer.
C35_DirectHandoff ==
    /\ [](cli.fwdPc # "none" => Undelivered \in {0, 1})
    /\ [](cli.fwdPc = "send" <=> (cli.fwdPc # "none" /\ Undelivered = 1))
    /\ [][(cli.fwdPc # "none" /\ Len(wire'.net) < Len(wire.net))
            => (cli.fwdPc = "recv" /\ Undelivered = 0)]_vars

C35_Witness ==
    /\ shape = "Controller"
    /\ cli.fwdPc = "send"
    /\ host.delivered = <<1>>
    /\ cli.fwdFrame = 2
    /\ wire.net = <<3>>

---------------------------------------------------------------------------
\* Further claims about the example plugin (SpecExample, FairExample)

\* C36: no sequence of StartRecord, StopRecord and Stop calls on the example
\* plugin faults on its quit channel: Stop never panics, and neither the
\* producer nor a plugin-side loop is taken down by such a panic.
C36_NoQuitChanFault ==
    /\ prod.stop # "panicked"
    /\ prod.pc # "crashed"
    /\ srv.pc # "crashed"

\* C37: under fair scheduling every StopRecord call and every Stop call on
\* the example plugin eventually returns.
C37_StopCallsReturn ==
    /\ (prod.stopRecord # "none") ~> (prod.stopRecord = "returned")
    /\ (prod.stop # "none") ~> (prod.stop = "returned")

---------------------------------------------------------------------------
\* Frame conditions of the Version Gate (SpecGate)

\* C38: each operation of a base changes only its own field.
\* SetPluginVersion leaves the constraint and the negotiated version as they
\* were, a set-constraint call leaves the plugin version and the negotiated
\* version, a successful PushVersion leaves the plugin version and the
\* constraint, and GetVersion and GetLaniVersion leave every field.
C38_OperationsChangeOwnField ==
    [][/\ lastCall'.op = "SetPluginVersion" =>
            /\ dsBase'.laniVersionConstraint = dsBase.laniVersionConstraint
            /\ dsBase'.laniVersion = dsBase.laniVersion
            /\ ctlBase'.requiredLaniVersion = ctlBase.requiredLaniVersion
            /\ ctlBase'.laniVersion = ctlBase.laniVersion
       /\ lastCall'.op \in {"SetVersionConstraints", "SetRequiredVersion"} =>
            /\ dsBase'.version = dsBase.version
            /\ dsBase'.laniVersion = dsBase.laniVersion
            /\ ctlBase'.version = ctlBase.version
            /\ ctlBase'.laniVersion = ctlBase.laniVersion
       /\ (lastCall'.op = "PushVersion" /\ lastCall'.err = "nil") =>
            /\ dsBase'.version = dsBase.version
            /\ dsBase'.laniVersionConstraint = dsBase.laniVersionConstraint
            /\ ctlBase'.version = ctlBase.version
            /\ ctlBase'.requiredLaniVersion = ctlBase.requiredLaniVersion
       /\ lastCall'.op \in {"GetVersion", "GetLaniVersion"} =>
            /\ dsBase' = dsBase
            /\ ctlBase' = ctlBase
       /\ lastCall'.base = "DatasourceBase" => ctlBase' = ctlBase
       /\ lastCall'.base = "ControllerBase" => dsBase' = dsBase]_vars

C38_Witness ==
    /\ LastCallIs("DatasourceBase", "SetVersionConstraints")
    /\ lastCall.err = "nil"
    /\ lastCall.arg = <<">", " ", "0", ".", "2", ".", "0">>
    /\ dsBase.version = PluginVersion
    /\ dsBase.laniVersion = Ver(0, 2, 0)

===========================================================================
